---- MODULE Spec2Model ----
(***************************************************************************)
(* Model of src/src/getRequires.ts: the ImportModifier class (init,        *)
(* modifyToFile, modifyToBuffer, replace, localImports), the               *)
(* BasicFileExtensionTransform policy, and the pieces of node and acorn    *)
(* the class calls (Buffer.toString / Buffer.from, fs FileHandle           *)
(* readFile / writeFile, acorn parse and acorn-walk simple).               *)
(*                                                                         *)
(* A byte is a string: an ASCII byte is its one-character string, the      *)
(* other bytes are "xC3", "xA9", "xEF", "xBF", "xBD".  A character (a      *)
(* UTF-16 code unit of a JS string) is a string too: an ASCII character    *)
(* is its one-character string, the others are named "U+E9", "U+FFFD"...   *)
(* A Buffer is a sequence of bytes, a JS string a sequence of characters.  *)
(***************************************************************************)
EXTENDS Integers, Sequences, FiniteSets, TLC

\* ------------------------------------------------------------------ bounds
\* Number of statements of the file the instance is constructed for.
MaxStmts == 1
\* Number of method calls made on the instance in one behaviour.
MaxCalls == 3

\* ------------------------------------------------------------ JS built-ins
Min(a, b) == IF a < b THEN a ELSE b
Max(a, b) == IF a > b THEN a ELSE b

\* String.prototype.substring(a, b) and Buffer.prototype.subarray(a, b) on a
\* sequence, with 0-based offsets as in JS.  substring clamps both arguments
\* to [0, length] and swaps them when a > b; subarray clamps and returns the
\* empty buffer when a >= b.
substring(s, a, b) ==
    LET ca == Max(0, Min(a, Len(s)))
        cb == Max(0, Min(b, Len(s)))
    IN  SubSeq(s, Min(ca, cb) + 1, Max(ca, cb))

subarray(buf, a, b) ==
    LET ca == Max(0, Min(a, Len(buf)))
        cb == Max(0, Min(b, Len(buf)))
    IN  IF ca >= cb THEN <<>> ELSE SubSeq(buf, ca + 1, cb)

\* String.prototype.endsWith
endsWith(s, suffix) ==
    /\ Len(suffix) <= Len(s)
    /\ SubSeq(s, Len(s) - Len(suffix) + 1, Len(s)) = suffix

\* String.prototype.startsWith
startsWith(s, prefix) ==
    /\ Len(prefix) <= Len(s)
    /\ SubSeq(s, 1, Len(prefix)) = prefix

\* -------------------------------------------------------------- UTF-8
\* Continuation bytes (10xxxxxx) of the byte alphabet.
ContBytes == {"xA9", "xBF", "xBD"}

\* The character a two-byte sequence C3 c encodes.
TwoByteChar(c) ==
    CASE c = "xA9" -> "U+E9"
      [] c = "xBF" -> "U+FF"
      [] OTHER     -> "U+FD"

\* The character a three-byte sequence EF c1 c2 encodes.
ThreeByteChar(c1, c2) ==
    CASE c1 = "xA9" /\ c2 = "xA9" -> "U+FA69"
      [] c1 = "xA9" /\ c2 = "xBF" -> "U+FA7F"
      [] c1 = "xA9" /\ c2 = "xBD" -> "U+FA7D"
      [] c1 = "xBF" /\ c2 = "xA9" -> "U+FFE9"
      [] c1 = "xBF" /\ c2 = "xBF" -> "U+FFFF"
      [] c1 = "xBF" /\ c2 = "xBD" -> "U+FFFD"
      [] c1 = "xBD" /\ c2 = "xA9" -> "U+FF69"
      [] c1 = "xBD" /\ c2 = "xBF" -> "U+FF7F"
      [] OTHER                    -> "U+FF7D"

\* Buffer.prototype.toString(): UTF-8 decoding, an ill-formed sequence
\* decoded as one U+FFFD per maximal subpart.
RECURSIVE DecodeFrom(_, _)
DecodeFrom(buf, i) ==
    IF i > Len(buf) THEN <<>>
    ELSE LET b  == buf[i]
             c1 == IF i + 1 <= Len(buf) /\ buf[i + 1] \in ContBytes THEN buf[i + 1] ELSE ""
             c2 == IF c1 # "" /\ i + 2 <= Len(buf) /\ buf[i + 2] \in ContBytes
                   THEN buf[i + 2] ELSE ""
         IN  CASE b = "xC3" /\ c1 # "" -> <<TwoByteChar(c1)>> \o DecodeFrom(buf, i + 2)
               [] b = "xC3"            -> <<"U+FFFD">> \o DecodeFrom(buf, i + 1)
               [] b = "xEF" /\ c2 # "" -> <<ThreeByteChar(c1, c2)>> \o DecodeFrom(buf, i + 3)
               [] b = "xEF" /\ c1 # "" -> <<"U+FFFD">> \o DecodeFrom(buf, i + 2)
               [] b = "xEF"            -> <<"U+FFFD">> \o DecodeFrom(buf, i + 1)
               [] b \in ContBytes      -> <<"U+FFFD">> \o DecodeFrom(buf, i + 1)
               [] OTHER                -> <<b>> \o DecodeFrom(buf, i + 1)

toString(buf) == DecodeFrom(buf, 1)

\* The UTF-8 bytes of one character.
EncodeChar(c) ==
    CASE c = "U+E9" -> <<"xC3", "xA9">>
      [] c = "U+FF" -> <<"xC3", "xBF">>
      [] c = "U+FD" -> <<"xC3", "xBD">>
      [] c = "U+FA69" -> <<"xEF", "xA9", "xA9">>
      [] c = "U+FA7F" -> <<"xEF", "xA9", "xBF">>
      [] c = "U+FA7D" -> <<"xEF", "xA9", "xBD">>
      [] c = "U+FFE9" -> <<"xEF", "xBF", "xA9">>
      [] c = "U+FFFF" -> <<"xEF", "xBF", "xBF">>
      [] c = "U+FFFD" -> <<"xEF", "xBF", "xBD">>
      [] c = "U+FF69" -> <<"xEF", "xBD", "xA9">>
      [] c = "U+FF7F" -> <<"xEF", "xBD", "xBF">>
      [] c = "U+FF7D" -> <<"xEF", "xBD", "xBD">>
      [] OTHER -> <<c>>

\* Buffer.from(str, 'utf-8')
RECURSIVE BufferFrom(_)
BufferFrom(str) ==
    IF str = <<>> THEN <<>> ELSE EncodeChar(Head(str)) \o BufferFrom(Tail(str))

\* Buffer.concat(list)
RECURSIVE BufferConcat(_)
BufferConcat(list) ==
    IF list = <<>> THEN <<>> ELSE Head(list) \o BufferConcat(Tail(list))

\* ------------------------------------------- BasicFileExtensionTransform
\* The options main() constructs its policy from: localExt '.js', toExt '.mjs'.
MainOptions ==
    [localExt |-> <<".", "j", "s">>, toExt |-> <<".", "m", "j", "s">>]

\* The fields the constructor assigns once its checks have passed.
BasicFileExtensionTransform(options) ==
    [localExt |-> options.localExt, toExt |-> options.toExt]

\* this.localImportTransform of the ImportModifier: the policy its scan and
\* its replace() consult.
VARIABLE localImportTransform

\* Mutant of ConstructorAccepts: only localExt is checked.
ConstructorAccepts_localOnly(options) == startsWith(options.localExt, <<".">>)

\* The constructor's check: both extensions start with '.'.
ConstructorAccepts(options) ==
    /\ startsWith(options.localExt, <<".">>)
    /\ startsWith(options.toExt, <<".">>)

isLocalFile(policy, value) == endsWith(value, policy.localExt)

\* Mutant of transform: the length of toExt is cut off instead of the length
\* of localExt.
transform_cutsToExt(policy, value) ==
    substring(value, 0, Len(value) - Len(policy.toExt)) \o policy.toExt

transform(policy, value) ==
    substring(value, 0, Len(value) - Len(policy.localExt)) \o policy.toExt

\* ------------------------------------------------------ acorn parse
\* The fragment of the module grammar the model's files are written in:
\*   import'...'   import"..."     ImportDeclaration
\*   export*from'...'              ExportAllDeclaration
\*   export{x}from'...'            ExportNamedDeclaration (with a source)
\*   import('...')                 ImportExpression (dynamic import)
\*   x='...'                       assignment of a string literal
\*   ;                             EmptyStatement
\* each statement ended by ';' or by the end of the input.  Any other input
\* is a syntax error.  A node carries its string literal: start and end are
\* 0-based offsets into the parsed string (end exclusive, quotes included),
\* value is the literal's cooked value (escape sequences resolved).
IsQuote(c) == c \in {"'", "\""}

HexDigits == {"a", "e", "f"}

\* The control character a single-character escape stands for.
ControlEscapes == {"r", "t", "f"}

s_import  == <<"i", "m", "p", "o", "r", "t">>
s_importP == <<"i", "m", "p", "o", "r", "t", "(">>
s_exportA == <<"e", "x", "p", "o", "r", "t", "*", "f", "r", "o", "m">>
s_exportN == <<"e", "x", "p", "o", "r", "t", "{", "x", "}", "f", "r", "o", "m">>
s_assign  == <<"x", "=">>

\* Whether word w stands at 1-based index i of s.
MatchAt(s, i, w) ==
    /\ i + Len(w) - 1 <= Len(s)
    /\ SubSeq(s, i, i + Len(w) - 1) = w

\* Reads a string literal's body from 1-based index j up to the closing
\* quote q.  The result's end is the 0-based offset after the closing quote.
RECURSIVE ReadString(_, _, _, _)
ReadString(s, j, q, acc) ==
    IF j > Len(s) THEN [ok |-> FALSE, end |-> 0, value |-> <<>>]
    ELSE IF s[j] = q THEN [ok |-> TRUE, end |-> j, value |-> acc]
    ELSE IF s[j] = "\\" THEN
        IF j + 1 > Len(s) THEN [ok |-> FALSE, end |-> 0, value |-> <<>>]
        ELSE IF s[j + 1] = "x" THEN
            IF j + 3 <= Len(s) /\ s[j + 2] \in HexDigits /\ s[j + 3] \in HexDigits
            THEN ReadString(s, j + 4, q, Append(acc, "\\x" \o s[j + 2] \o s[j + 3]))
            ELSE [ok |-> FALSE, end |-> 0, value |-> <<>>]
        ELSE IF s[j + 1] \in ControlEscapes
            THEN ReadString(s, j + 2, q, Append(acc, "\\" \o s[j + 1]))
        ELSE ReadString(s, j + 2, q, Append(acc, s[j + 1]))
    ELSE ReadString(s, j + 1, q, Append(acc, s[j]))

\* The string literal at 1-based index i, as a node of the given type.
LiteralAt(s, i, type) ==
    IF i <= Len(s) /\ IsQuote(s[i])
    THEN LET r == ReadString(s, i + 1, s[i], <<>>)
         IN  [ok |-> r.ok, type |-> type, start |-> i - 1, end |-> r.end, value |-> r.value]
    ELSE [ok |-> FALSE, type |-> type, start |-> 0, end |-> 0, value |-> <<>>]

\* The statement at 1-based index i; next is the 1-based index after it.
StatementAt(s, i) ==
    LET lit == CASE MatchAt(s, i, s_importP) ->
                        LiteralAt(s, i + Len(s_importP), "ImportExpression")
                 [] MatchAt(s, i, s_import) ->
                        LiteralAt(s, i + Len(s_import), "ImportDeclaration")
                 [] MatchAt(s, i, s_exportA) ->
                        LiteralAt(s, i + Len(s_exportA), "ExportAllDeclaration")
                 [] MatchAt(s, i, s_exportN) ->
                        LiteralAt(s, i + Len(s_exportN), "ExportNamedDeclaration")
                 [] MatchAt(s, i, s_assign) ->
                        LiteralAt(s, i + Len(s_assign), "AssignmentExpression")
                 [] OTHER ->
                        [ok |-> FALSE, type |-> "none", start |-> 0, end |-> 0, value |-> <<>>]
        close == IF lit.type = "ImportExpression" THEN 1 ELSE 0
    IN  IF ~lit.ok THEN [ok |-> FALSE, node |-> lit, next |-> i]
        ELSE IF close = 1 /\ ~MatchAt(s, lit.end + 1, <<")">>)
        THEN [ok |-> FALSE, node |-> lit, next |-> i]
        ELSE [ok |-> TRUE, node |-> lit, next |-> lit.end + 1 + close]

RECURSIVE ParseFrom(_, _, _)
ParseFrom(s, i, body) ==
    IF i > Len(s) THEN [ok |-> TRUE, body |-> body]
    ELSE IF s[i] = ";" THEN ParseFrom(s, i + 1, body)
    ELSE LET st == StatementAt(s, i)
         IN  IF ~st.ok THEN [ok |-> FALSE, body |-> <<>>]
             ELSE IF st.next > Len(s)
             THEN [ok |-> TRUE, body |-> Append(body, st.node)]
             ELSE IF s[st.next] = ";"
             THEN ParseFrom(s, st.next + 1, Append(body, st.node))
             ELSE [ok |-> FALSE, body |-> <<>>]

\* parse(str, options): ok is FALSE when acorn throws a SyntaxError.
parse(str) == ParseFrom(str, 1, <<>>)

\* ------------------------------------------------------- ImportModifier
\* A Literal of substituteLiterals: the node's start, end and value.
Literal(node) == [start |-> node.start, end |-> node.end, value |-> node.value]

\* The node types whose source the visitors of simple() pass to
\* tryAddToSubstituteList.
VisitedTypes == {"ExportAllDeclaration", "ImportDeclaration"}

\* The source literals simple() passes to tryAddToSubstituteList, in the
\* order the walk reaches them.
RECURSIVE VisitedSources(_)
VisitedSources(body) ==
    IF body = <<>> THEN <<>>
    ELSE (IF Head(body).type \in VisitedTypes THEN <<Literal(Head(body))>> ELSE <<>>)
         \o VisitedSources(Tail(body))

\* tryAddToSubstituteList applied to each literal of lits in turn: the list
\* with the literals the policy calls local pushed onto it.
RECURSIVE tryAddToSubstituteList(_, _)
tryAddToSubstituteList(list, lits) ==
    IF lits = <<>> THEN list
    ELSE tryAddToSubstituteList(
            IF isLocalFile(localImportTransform, Head(lits).value)
            THEN Append(list, Head(lits)) ELSE list,
            Tail(lits))

\* The values isLocalFile returned true for during those calls.
AcceptedValues(lits) ==
    {lits[i].value : i \in {j \in 1..Len(lits) :
                               isLocalFile(localImportTransform, lits[j].value)}}

\* Array.prototype.sort with the comparator l1.start - l2.start (stable).
RECURSIVE InsertByStart(_, _)
InsertByStart(sorted, l) ==
    IF sorted = <<>> THEN <<l>>
    ELSE IF Head(sorted).start <= l.start
         THEN <<Head(sorted)>> \o InsertByStart(Tail(sorted), l)
         ELSE <<l>> \o sorted

RECURSIVE SortByStart(_)
SortByStart(list) ==
    IF list = <<>> THEN <<>>
    ELSE InsertByStart(SortByStart(SubSeq(list, 1, Len(list) - 1)), list[Len(list)])

\* The string replace() passes to transform for one literal: the text of
\* the span without its first and last character when it starts with a
\* quote, the whole text otherwise.
TransformArg(literalStr) ==
    IF literalStr # <<>> /\ IsQuote(literalStr[1])
    THEN substring(literalStr, 1, Len(literalStr) - 1)
    ELSE literalStr

\* Mutant of Replacement: the literal is always re-quoted with '"'.
Replacement_doubleQuoted(literalStr) ==
    IF literalStr # <<>> /\ IsQuote(literalStr[1])
    THEN BufferFrom(<<"\"">>
                    \o transform(localImportTransform, TransformArg(literalStr))
                    \o <<"\"">>)
    ELSE BufferFrom(transform(localImportTransform, TransformArg(literalStr)))

\* The buffer replace() pushes for one literal.
Replacement(literalStr) ==
    IF literalStr # <<>> /\ IsQuote(literalStr[1])
    THEN BufferFrom(<<literalStr[1]>>
                    \o transform(localImportTransform, TransformArg(literalStr))
                    \o <<literalStr[1]>>)
    ELSE BufferFrom(transform(localImportTransform, TransformArg(literalStr)))

\* The offset replace() continues from after a literal.
NextSplitIdx(literal) == literal.end + 1

\* The forEach of replace(): splitBuffers after the literals from index i on.
RECURSIVE SplitBuffers(_, _, _, _)
SplitBuffers(fileBuffer, literals, i, lastSplitIdx) ==
    IF i > Len(literals)
    THEN IF lastSplitIdx # Len(fileBuffer)
         THEN <<subarray(fileBuffer, lastSplitIdx, Len(fileBuffer))>>
         ELSE <<>>
    ELSE LET literal == literals[i]
             literalStr == toString(subarray(fileBuffer, literal.start, literal.end))
         IN  <<subarray(fileBuffer, lastSplitIdx, literal.start), Replacement(literalStr)>>
             \o SplitBuffers(fileBuffer, literals, i + 1, NextSplitIdx(literal))

\* Mutant of replace: the first copied span starts at offset 1.
replace_fromOne(fileBuffer, literals) ==
    BufferConcat(SplitBuffers(fileBuffer, literals, 1, 1))

\* replace(fileBuffer) with this.substituteLiterals = literals.
replace(fileBuffer, literals) ==
    BufferConcat(SplitBuffers(fileBuffer, literals, 1, 0))

\* The strings replace() invokes transform with.
TransformArgs(fileBuffer, literals) ==
    {TransformArg(toString(subarray(fileBuffer, literals[i].start, literals[i].end)))
        : i \in 1..Len(literals)}

\* --------------------------------------------------------------- files
\* The statements the files of the model are made of.
Statements ==
    { s_import \o <<"'", ".", "/", "a", ".", "j", "s", "'">>,
      s_exportA \o <<"\"", ".", "/", "a", ".", "j", "s", "\"">>,
      s_exportN \o <<"'", ".", "/", "a", ".", "j", "s", "'">>,
      s_import \o <<"'", "f", "s", "'">>,
      s_assign \o <<"'", ".", "/", "a", ".", "j", "s", "'">>,
      s_import \o <<"'", ".", "/", "xC3", "xA9", ".", "j", "s", "'">>,
      s_importP \o <<"'", ".", "/", "a", ".", "j", "s", "'", ")">>,
      s_import \o <<"'", ".", "/", "a", ".", "j", "\\", "s", "'">>,
      s_import }

\* The statements joined by ';'.
RECURSIVE Join(_)
Join(stmts) ==
    IF stmts = <<>> THEN <<>>
    ELSE IF Len(stmts) = 1 THEN Head(stmts)
    ELSE Head(stmts) \o <<";">> \o Join(Tail(stmts))

\* The files an instance is constructed for: up to MaxStmts statements,
\* with or without a ';' after the last one.
Files ==
    UNION { { Join(st) \o tail : st \in [1..n -> Statements], tail \in {<<>>, <<";">>} }
            : n \in 0..MaxStmts }

\* ----------------------------------------------------- fs/promises
\* open(filePath, 'r+'): the position of the FileHandle is the start of the
\* file, and the file is neither created nor truncated.
OpenPosition == 0

\* Mutant of OpenedFile: the file is opened with a truncating flag ('w+').
OpenedFile_truncating(f) == <<>>

\* The content of the file once open(filePath, 'r+') has resolved.
OpenedFile(f) == f

\* filehandle.readFile(): the bytes from the handle's position to the end
\* of the file; the position moves to the end of the file.
ReadFromPosition(f, pos) == subarray(f, pos, Len(f))

\* filehandle.writeFile(data): the bytes of data written at the handle's
\* position, over what the file holds there; the file is not truncated.
WriteAtPosition(f, pos, data) ==
    subarray(f, 0, pos) \o data \o subarray(f, pos + Len(data), Len(f))

\* ------------------------------------------------------------- state
\* The instance has two callers: up to two calls are in flight (suspended at
\* an await) at once.
Tasks == {1, 2}

VARIABLES
    file,               \* the bytes of the file at filePath
    substituteLiterals, \* this.substituteLiterals
    fileTransformed,    \* this.fileTransformed
    initialized,        \* this.initialized
    tasks,              \* the calls in flight and their last results
    calls,              \* number of calls made so far
    accepted,           \* history: the values isLocalFile returned true for
    transformed,        \* history: the values transform was invoked with
    scanned,            \* history: the file contents getImportsToModify walked
    initCompleted,      \* history: an init() call has resolved
    toFileCompleted,    \* history: a modifyToFile() call has resolved
    rewriteRun,         \* a rewrite followed by a rescan of its output
    policyRun           \* a policy under construction and the path it is asked about

vars == <<file, substituteLiterals, fileTransformed, initialized, tasks, calls,
          accepted, transformed, scanned, initCompleted, toFileCompleted,
          localImportTransform, rewriteRun, policyRun>>

\* A call: the method (op), the await it is suspended at (pc), how it
\* settled (result), its local fileBuffer, the buffer replace() returned
\* (out) and its local splitBuffers, the literals replace() used (plan),
\* its filehandle (handle, pos), what the finally block leaves the call to
\* settle with after close (pending), and the I/O calls and the replace()
\* call it has made so far (log).
NoTask ==
    [op |-> "none", pc |-> "idle", result |-> "none", fileBuffer |-> <<>>, out |-> <<>>,
     plan |-> <<>>, handle |-> "null", pos |-> 0, pending |-> "none", splitBuffers |-> <<>>, log |-> <<>>]

NewTask(op, pc, log) == [NoTask EXCEPT !.op = op, !.pc = pc, !.log = log]

Settled(op, result) == [NoTask EXCEPT !.op = op, !.pc = "done", !.result = result]

Settles(t) == tasks[t].pc \in {"idle", "done"}

\* A call is made in the first slot that holds no call in flight.
Free(t) ==
    /\ calls < MaxCalls
    /\ Settles(t)
    /\ \A u \in Tasks : u < t => ~Settles(u)

\* No rewrite-and-rescan run and no policy run is under way.
NoRewriteRun == [step |-> "none", pass |-> 0, first |-> <<>>, out |-> <<>>]

NoPolicyRun ==
    [step |-> "none", options |-> MainOptions, path |-> <<>>, isLocal |-> FALSE,
     result |-> <<>>]

Init ==
    /\ file \in Files
    /\ substituteLiterals = <<>>
    /\ fileTransformed = FALSE
    /\ initialized = FALSE
    /\ tasks = [t \in Tasks |-> NoTask]
    /\ calls = 0
    /\ accepted = {}
    /\ transformed = {}
    /\ scanned = <<>>
    /\ initCompleted = FALSE
    /\ toFileCompleted = FALSE
    /\ localImportTransform = BasicFileExtensionTransform(MainOptions)
    /\ rewriteRun = NoRewriteRun
    /\ policyRun = NoPolicyRun

\* Mutant of initGuard: the guard never throws.
initGuard_never(isInitialized) == FALSE

\* initGuard(): whether it throws.
initGuard(isInitialized) == ~isInitialized

\* Mutant of AlreadyTransformed: the check is missing.
AlreadyTransformed_never(isTransformed) == FALSE

\* modifyToFile's check of fileTransformed: whether it throws.
AlreadyTransformed(isTransformed) == isTransformed

\* Mutant of ThrownBy: the SyntaxError is caught and dropped.
ThrownBy_swallowed(tree) == FALSE

\* Whether parse() threw: the exception leaves getImportsToModify() at the
\* parse call, and init() at its await.
ThrownBy(tree) == ~tree.ok

\* Mutant of Failed: no finally block, the error leaves the call at once.
Failed_noFinally(task, error) ==
    [task EXCEPT !.pc = "done", !.result = error]

\* Mutant of Failed: the error is dropped and the try block goes on to
\* writeFile.
Failed_writesAnyway(task, error) ==
    [task EXCEPT !.pc = "write", !.log = Append(@, "write")]

\* A step inside the try block throws: the finally block runs
\* filehandle.close() and the error is rethrown once close has resolved.
Failed(task, error) ==
    [task EXCEPT !.pc = "close", !.pending = error, !.log = Append(@, "close")]

\* ---------------------------------------------------------------- init
\* init() is called: getImportsToModify() calls readFile(filePath).
CallInit(t) ==
    /\ Free(t)
    /\ tasks' = [tasks EXCEPT ![t] = NewTask("init", "readFile", <<"readFile">>)]
    /\ calls' = calls + 1
    /\ UNCHANGED <<file, substituteLiterals, fileTransformed, initialized,
                   accepted, transformed, scanned, initCompleted, toFileCompleted>>
    /\ UNCHANGED <<localImportTransform, rewriteRun, policyRun>>

\* readFile rejects: init() rejects with the I/O error.
InitReadFails(t) ==
    /\ tasks[t].op = "init" /\ tasks[t].pc = "readFile"
    /\ tasks' = [tasks EXCEPT ![t].pc = "done", ![t].result = "IOError"]
    /\ UNCHANGED <<file, substituteLiterals, fileTransformed, initialized, calls,
                   accepted, transformed, scanned, initCompleted, toFileCompleted>>
    /\ UNCHANGED <<localImportTransform, rewriteRun, policyRun>>

\* readFile resolves and parse throws: init() rejects with the SyntaxError.
InitParseFails(t) ==
    /\ tasks[t].op = "init" /\ tasks[t].pc = "readFile"
    /\ ThrownBy(parse(toString(file)))
    /\ tasks' = [tasks EXCEPT ![t].pc = "done", ![t].result = "ParseError",
                              ![t].fileBuffer = file]
    /\ UNCHANGED <<file, substituteLiterals, fileTransformed, initialized, calls,
                   accepted, transformed, scanned, initCompleted, toFileCompleted>>
    /\ UNCHANGED <<localImportTransform, rewriteRun, policyRun>>

\* The list getImportsToModify() leaves in substituteLiterals for a tree.
ScannedLiterals(list, tree) ==
    SortByStart(tryAddToSubstituteList(list, VisitedSources(tree.body)))

\* readFile resolves: the rest of getImportsToModify() (parse, walk, sort).
InitScan(t) ==
    /\ tasks[t].op = "init" /\ tasks[t].pc = "readFile"
    /\ LET tree == parse(toString(file))
       IN  /\ ~ThrownBy(tree)
           /\ substituteLiterals' = ScannedLiterals(substituteLiterals, tree)
           /\ accepted' = accepted \cup AcceptedValues(VisitedSources(tree.body))
    /\ scanned' = Append(scanned, file)
    /\ tasks' = [tasks EXCEPT ![t].pc = "scanned", ![t].fileBuffer = file]
    /\ UNCHANGED <<file, fileTransformed, initialized, calls, transformed,
                   initCompleted, toFileCompleted>>
    /\ UNCHANGED <<localImportTransform, rewriteRun, policyRun>>

\* await getImportsToModify() resumes: this.initialized = true; return this.
InitReturn(t) ==
    /\ tasks[t].op = "init" /\ tasks[t].pc = "scanned"
    /\ initialized' = TRUE
    /\ initCompleted' = TRUE
    /\ tasks' = [tasks EXCEPT ![t].pc = "done", ![t].result = "ok"]
    /\ UNCHANGED <<file, substituteLiterals, fileTransformed, calls, accepted,
                   transformed, scanned, toFileCompleted>>
    /\ UNCHANGED <<localImportTransform, rewriteRun, policyRun>>

\* -------------------------------------------- modifyToFile, modifyToBuffer
\* modifyToFile() is called: initGuard(), the fileTransformed check, then
\* open(filePath, 'r+').
CallModifyToFile(t) ==
    /\ Free(t)
    /\ tasks' = [tasks EXCEPT ![t] =
                    IF initGuard(initialized) THEN Settled("modifyToFile", "NotInitialized")
                    ELSE IF AlreadyTransformed(fileTransformed)
                    THEN Settled("modifyToFile", "AlreadyWritten")
                    ELSE NewTask("modifyToFile", "open", <<"open">>)]
    /\ calls' = calls + 1
    /\ UNCHANGED <<file, substituteLiterals, fileTransformed, initialized,
                   accepted, transformed, scanned, initCompleted, toFileCompleted>>
    /\ UNCHANGED <<localImportTransform, rewriteRun, policyRun>>

\* modifyToBuffer() is called: initGuard(), then open(filePath, 'r+').
CallModifyToBuffer(t) ==
    /\ Free(t)
    /\ tasks' = [tasks EXCEPT ![t] =
                    IF initGuard(initialized) THEN Settled("modifyToBuffer", "NotInitialized")
                    ELSE NewTask("modifyToBuffer", "open", <<"open">>)]
    /\ calls' = calls + 1
    /\ UNCHANGED <<file, substituteLiterals, fileTransformed, initialized,
                   accepted, transformed, scanned, initCompleted, toFileCompleted>>
    /\ UNCHANGED <<localImportTransform, rewriteRun, policyRun>>

\* The localImports getter: initGuard(), then the list is returned.
GetLocalImports(t) ==
    /\ Free(t)
    /\ tasks' = [tasks EXCEPT ![t] =
                    IF initGuard(initialized) THEN Settled("localImports", "NotInitialized")
                    ELSE [Settled("localImports", "ok") EXCEPT !.plan = substituteLiterals]]
    /\ calls' = calls + 1
    /\ UNCHANGED <<file, substituteLiterals, fileTransformed, initialized,
                   accepted, transformed, scanned, initCompleted, toFileCompleted>>
    /\ UNCHANGED <<localImportTransform, rewriteRun, policyRun>>

Modifying(t) == tasks[t].op \in {"modifyToFile", "modifyToBuffer"}

\* open resolves with a filehandle.
OpenResolves(t) ==
    /\ Modifying(t) /\ tasks[t].pc = "open"
    /\ tasks' = [tasks EXCEPT ![t].pc = "read", ![t].handle = "open",
                              ![t].pos = OpenPosition,
                              ![t].log = Append(@, "read")]
    /\ file' = OpenedFile(file)
    /\ UNCHANGED <<substituteLiterals, fileTransformed, initialized, calls,
                   accepted, transformed, scanned, initCompleted, toFileCompleted>>
    /\ UNCHANGED <<localImportTransform, rewriteRun, policyRun>>

\* open rejects: filehandle is still null in the finally block, the call
\* rejects with the I/O error.
OpenRejects(t) ==
    /\ Modifying(t) /\ tasks[t].pc = "open"
    /\ tasks' = [tasks EXCEPT ![t].pc = "done", ![t].result = "IOError"]
    /\ UNCHANGED <<file, substituteLiterals, fileTransformed, initialized, calls,
                   accepted, transformed, scanned, initCompleted, toFileCompleted>>
    /\ UNCHANGED <<localImportTransform, rewriteRun, policyRun>>

\* filehandle.readFile() resolves: replace(fileBuffer) runs; modifyToFile
\* calls filehandle.writeFile with its result, modifyToBuffer enters the
\* finally block with it.
ReadResolves(t) ==
    /\ Modifying(t) /\ tasks[t].pc = "read"
    /\ LET fileBuffer == ReadFromPosition(file, tasks[t].pos)
           toFile == tasks[t].op = "modifyToFile"
       IN  /\ tasks' = [tasks EXCEPT ![t].fileBuffer = fileBuffer,
                                     ![t].pos = Len(file),
                                     ![t].plan = substituteLiterals,
                                     ![t].splitBuffers =
                                          SplitBuffers(fileBuffer, substituteLiterals, 1, 0),
                                     ![t].out = replace(fileBuffer, substituteLiterals),
                                     ![t].pc = IF toFile THEN "write" ELSE "close",
                                     ![t].pending = IF toFile THEN "none" ELSE "ok",
                                     ![t].log = @ \o <<"replace",
                                                        IF toFile THEN "write" ELSE "close">>]
           /\ transformed' = transformed \cup TransformArgs(fileBuffer, substituteLiterals)
    /\ UNCHANGED <<file, substituteLiterals, fileTransformed, initialized, calls,
                   accepted, scanned, initCompleted, toFileCompleted>>
    /\ UNCHANGED <<localImportTransform, rewriteRun, policyRun>>

\* filehandle.readFile() resolves and transform throws at its first call in
\* replace(): LocalImportTransform is an interface, replace() runs whichever
\* implementation the constructor was given.  The finally block closes the
\* handle.
ReplaceRejects(t) ==
    /\ Modifying(t) /\ tasks[t].pc = "read"
    /\ substituteLiterals # <<>>
    /\ LET fileBuffer == ReadFromPosition(file, tasks[t].pos)
       IN  /\ tasks' = [tasks EXCEPT ![t] =
                           Failed([tasks[t] EXCEPT !.fileBuffer = fileBuffer,
                                                   !.pos = Len(file),
                                                   !.plan = substituteLiterals],
                                  "TransformError")]
           /\ transformed' = transformed
                                \cup TransformArgs(fileBuffer, <<Head(substituteLiterals)>>)
    /\ UNCHANGED <<file, substituteLiterals, fileTransformed, initialized, calls,
                   accepted, scanned, initCompleted, toFileCompleted>>
    /\ UNCHANGED <<localImportTransform, rewriteRun, policyRun>>

\* filehandle.readFile() rejects: the finally block closes the handle.
ReadRejects(t) ==
    /\ Modifying(t) /\ tasks[t].pc = "read"
    /\ tasks' = [tasks EXCEPT ![t] = Failed(tasks[t], "IOError")]
    /\ UNCHANGED <<file, substituteLiterals, fileTransformed, initialized, calls,
                   accepted, transformed, scanned, initCompleted, toFileCompleted>>
    /\ UNCHANGED <<localImportTransform, rewriteRun, policyRun>>

\* filehandle.writeFile resolves: the file holds the written bytes.
WriteResolves(t) ==
    /\ tasks[t].op = "modifyToFile" /\ tasks[t].pc = "write"
    /\ file' = WriteAtPosition(file, tasks[t].pos, tasks[t].out)
    /\ tasks' = [tasks EXCEPT ![t].pc = "close", ![t].pending = "ok",
                              ![t].pos = @ + Len(tasks[t].out),
                              ![t].log = Append(@, "close")]
    /\ UNCHANGED <<substituteLiterals, fileTransformed, initialized, calls,
                   accepted, transformed, scanned, initCompleted, toFileCompleted>>
    /\ UNCHANGED <<localImportTransform, rewriteRun, policyRun>>

\* filehandle.writeFile rejects: the finally block closes the handle.
WriteRejects(t) ==
    /\ tasks[t].op = "modifyToFile" /\ tasks[t].pc = "write"
    /\ tasks' = [tasks EXCEPT ![t] = Failed(tasks[t], "IOError")]
    /\ UNCHANGED <<file, substituteLiterals, fileTransformed, initialized, calls,
                   accepted, transformed, scanned, initCompleted, toFileCompleted>>
    /\ UNCHANGED <<localImportTransform, rewriteRun, policyRun>>

\* The value modifyToFile() leaves in this.fileTransformed when it resolves.
MarkTransformed == TRUE

\* filehandle.close() resolves.  A pending error is rethrown; otherwise
\* modifyToFile sets fileTransformed and resolves, modifyToBuffer resolves
\* with the buffer.
CloseResolves(t) ==
    /\ Modifying(t) /\ tasks[t].pc = "close"
    /\ tasks' = [tasks EXCEPT ![t].pc = "done", ![t].handle = "closed",
                              ![t].result = tasks[t].pending]
    /\ IF tasks[t].op = "modifyToFile" /\ tasks[t].pending = "ok"
       THEN fileTransformed' = MarkTransformed /\ toFileCompleted' = TRUE
       ELSE UNCHANGED <<fileTransformed, toFileCompleted>>
    /\ UNCHANGED <<file, substituteLiterals, initialized, calls, accepted,
                   transformed, scanned, initCompleted>>
    /\ UNCHANGED <<localImportTransform, rewriteRun, policyRun>>

Next ==
    \E t \in Tasks :
        \/ CallInit(t)
        \/ InitReadFails(t)
        \/ InitParseFails(t)
        \/ InitScan(t)
        \/ InitReturn(t)
        \/ CallModifyToFile(t)
        \/ CallModifyToBuffer(t)
        \/ GetLocalImports(t)
        \/ OpenResolves(t)
        \/ OpenRejects(t)
        \/ ReadResolves(t)
        \/ ReplaceRejects(t)
        \/ ReadRejects(t)
        \/ WriteResolves(t)
        \/ WriteRejects(t)
        \/ CloseResolves(t)

Spec == Init /\ [][Next]_vars

\* ------------------------------------------ a rewrite and a rescan of it
\* What main() does to one file (new ImportModifier, init(), replace() on
\* the bytes read), run a second time on the output of the first run with a
\* policy whose localExt and toExt are both '.mjs'.
MjsOptions ==
    [localExt |-> <<".", "m", "j", "s">>, toExt |-> <<".", "m", "j", "s">>]

\* The files handed to the first run: those of Files, and those followed by
\* one more ';'.
RewriteInputs == Files \cup {f \o <<";">> : f \in Files}

\* Everything the calls of Spec keep, at rest.
CallsAtRest ==
    /\ fileTransformed = FALSE
    /\ initialized = FALSE
    /\ tasks = [t \in Tasks |-> NoTask]
    /\ calls = 0
    /\ accepted = {}
    /\ transformed = {}
    /\ scanned = <<>>
    /\ initCompleted = FALSE
    /\ toFileCompleted = FALSE

callVars == <<fileTransformed, initialized, tasks, calls, accepted, transformed,
              scanned, initCompleted, toFileCompleted>>

InitRewrite ==
    /\ file \in RewriteInputs
    /\ substituteLiterals = <<>>
    /\ localImportTransform = BasicFileExtensionTransform(MainOptions)
    /\ rewriteRun = [NoRewriteRun EXCEPT !.step = "scan", !.pass = 1]
    /\ policyRun = NoPolicyRun
    /\ CallsAtRest

\* getImportsToModify() on the file: parse, walk, sort.
RewriteScan ==
    /\ rewriteRun.step = "scan"
    /\ LET tree == parse(toString(file))
       IN  /\ ~ThrownBy(tree)
           /\ substituteLiterals' = ScannedLiterals(substituteLiterals, tree)
    /\ rewriteRun' = [rewriteRun EXCEPT !.step = "replace"]
    /\ UNCHANGED <<file, localImportTransform, policyRun, callVars>>

\* parse throws: the run ends with the SyntaxError.
RewriteScanFails ==
    /\ rewriteRun.step = "scan"
    /\ ThrownBy(parse(toString(file)))
    /\ rewriteRun' = [rewriteRun EXCEPT !.step = "parseError"]
    /\ UNCHANGED <<file, substituteLiterals, localImportTransform, policyRun, callVars>>

\* replace() on the bytes of the file.
RewriteReplace ==
    /\ rewriteRun.step = "replace"
    /\ rewriteRun' = [rewriteRun EXCEPT
                         !.out = replace(file, substituteLiterals),
                         !.step = IF rewriteRun.pass = 1 THEN "rescan" ELSE "done"]
    /\ UNCHANGED <<file, substituteLiterals, localImportTransform, policyRun, callVars>>

\* A new ImportModifier on a file that holds the output of the first run,
\* with the '.mjs' to '.mjs' policy.
RewriteAgain ==
    /\ rewriteRun.step = "rescan"
    /\ file' = rewriteRun.out
    /\ substituteLiterals' = <<>>
    /\ localImportTransform' = BasicFileExtensionTransform(MjsOptions)
    /\ rewriteRun' = [step |-> "scan", pass |-> 2, first |-> rewriteRun.out, out |-> <<>>]
    /\ UNCHANGED <<policyRun, callVars>>

NextRewrite ==
    \/ RewriteScan
    \/ RewriteScanFails
    \/ RewriteReplace
    \/ RewriteAgain

SpecRewrite == InitRewrite /\ [][NextRewrite]_vars

\* ------------------------------------- BasicFileExtensionTransform alone
\* The extensions a policy is constructed with, and the paths it is asked
\* about.
Extensions ==
    { <<>>, <<".">>, <<"j", "s">>, <<".", "j", "s">>, <<".", "m", "j", "s">> }

Paths ==
    { <<>>,
      <<"f", "s">>,
      <<".", "j", "s">>,
      <<".", "/", "a", ".", "j", "s">>,
      <<".", "/", "a", ".", "m", "j", "s">>,
      <<".", "/", "j", "s">>,
      <<".", "/", "a", ".", "j", "s", ".">>,
      <<".", "/", ".", "j", "s", "/", "a", ".", "j", "s">> }

InitPolicy ==
    /\ policyRun \in { [NoPolicyRun EXCEPT !.step = "new",
                                           !.options = [localExt |-> l, toExt |-> e],
                                           !.path = p]
                          : l \in Extensions, e \in Extensions, p \in Paths }
    /\ localImportTransform = BasicFileExtensionTransform([localExt |-> <<>>, toExt |-> <<>>])
    /\ rewriteRun = NoRewriteRun
    /\ file = <<>>
    /\ substituteLiterals = <<>>
    /\ CallsAtRest

\* new BasicFileExtensionTransform(options): a check fails, the constructor
\* throws.
ConstructorThrows ==
    /\ policyRun.step = "new"
    /\ ~ConstructorAccepts(policyRun.options)
    /\ policyRun' = [policyRun EXCEPT !.step = "threw"]
    /\ UNCHANGED <<file, substituteLiterals, localImportTransform, rewriteRun, callVars>>

\* new BasicFileExtensionTransform(options): both checks pass, the fields
\* are assigned.
ConstructorReturns ==
    /\ policyRun.step = "new"
    /\ ConstructorAccepts(policyRun.options)
    /\ localImportTransform' = BasicFileExtensionTransform(policyRun.options)
    /\ policyRun' = [policyRun EXCEPT !.step = "constructed"]
    /\ UNCHANGED <<file, substituteLiterals, rewriteRun, callVars>>

\* isLocalFile(path) is called on the policy.
CallIsLocalFile ==
    /\ policyRun.step = "constructed"
    /\ policyRun' = [policyRun EXCEPT
                        !.isLocal = isLocalFile(localImportTransform, policyRun.path),
                        !.step = "classified"]
    /\ UNCHANGED <<file, substituteLiterals, localImportTransform, rewriteRun, callVars>>

\* transform(path) is called on the policy, for a path isLocalFile returned
\* true for.
CallTransform ==
    /\ policyRun.step = "classified"
    /\ policyRun.isLocal
    /\ policyRun' = [policyRun EXCEPT
                        !.result = transform(localImportTransform, policyRun.path),
                        !.step = "transformed"]
    /\ UNCHANGED <<file, substituteLiterals, localImportTransform, rewriteRun, callVars>>

NextPolicy ==
    \/ ConstructorThrows
    \/ ConstructorReturns
    \/ CallIsLocalFile
    \/ CallTransform

SpecPolicy == InitPolicy /\ [][NextPolicy]_vars

\* =============================================================== claims
\* Call t has run replace().
Replaced(t) ==
    /\ Modifying(t)
    /\ \E i \in 1..Len(tasks[t].log) : tasks[t].log[i] = "replace"

\* Call t has just run replace(): it is suspended at the await that follows.
\* The call's fileBuffer, plan, splitBuffers and out do not change after
\* this state.
JustReplaced(t) ==
    /\ Replaced(t)
    /\ tasks[t].pc \in {"write", "close"}
    /\ tasks[t].log[Len(tasks[t].log) - 1] = "replace"

\* The text of literal l's span in buffer buf.
SpanText(buf, l) == toString(subarray(buf, l.start, l.end))

\* C1 (apply-once): a modifyToFile() call made after a modifyToFile() call
\* has resolved settles at once with the already-written error, without
\* opening, reading or writing the file, and the file is as it was.
C1_ApplyOnce ==
    [][\A t \in Tasks :
          (toFileCompleted /\ CallModifyToFile(t))
              => /\ tasks'[t].pc = "done"
                 /\ tasks'[t].result = "AlreadyWritten"
                 /\ tasks'[t].log = <<>>
                 /\ file' = file]_vars

\* C1 witness: a second modifyToFile() was refused after the first resolved.
C1_Witness ==
    /\ toFileCompleted
    /\ \E t \in Tasks : tasks[t].op = "modifyToFile" /\ tasks[t].result = "AlreadyWritten"

\* C2 (pre-scan guard): while no init() call has resolved, modifyToBuffer(),
\* modifyToFile() and the localImports getter settle at once with the
\* not-initialized error, with no file handle and no open, read or write.
C2_PreScanGuard ==
    [][\A t \in Tasks :
          (~initCompleted
             /\ (CallModifyToFile(t) \/ CallModifyToBuffer(t) \/ GetLocalImports(t)))
              => /\ tasks'[t].pc = "done"
                 /\ tasks'[t].result = "NotInitialized"
                 /\ tasks'[t].log = <<>>
                 /\ tasks'[t].handle = "null"
                 /\ file' = file]_vars

\* C2 witness: a call was refused while an init() call was in flight, after
\* its scan and before it resolved.
C2_Witness ==
    \E t, u \in Tasks :
        /\ tasks[t].op \in {"modifyToFile", "modifyToBuffer", "localImports"}
        /\ tasks[t].result = "NotInitialized"
        /\ tasks[u].op = "init" /\ tasks[u].pc = "scanned"
        /\ ~initCompleted

\* A plan that is ordered by start, non-overlapping and inside the buffer.
OrderedPlan(plan, buf) ==
    /\ \A i \in 1..Len(plan) :
          /\ 0 <= plan[i].start
          /\ plan[i].start < plan[i].end
          /\ plan[i].end <= Len(buf)
    /\ \A i \in 1..(Len(plan) - 1) : plan[i].end <= plan[i + 1].start

\* The reference splice: [cursor, start) copied, the span replaced by the
\* quoted transformed text, the cursor moved to end; then the tail copied.
RECURSIVE ReferenceSplice(_, _, _, _)
ReferenceSplice(buf, plan, i, cursor) ==
    IF i > Len(plan) THEN subarray(buf, cursor, Len(buf))
    ELSE subarray(buf, cursor, plan[i].start)
         \o Replacement(SpanText(buf, plan[i]))
         \o ReferenceSplice(buf, plan, i + 1, plan[i].end)

\* C3 (splice correctness), as claimed: for an ordered, non-overlapping
\* plan, the buffer replace() returns is the reference splice.
C3_SpliceIsReference ==
    \A t \in Tasks :
        (Replaced(t) /\ OrderedPlan(tasks[t].plan, tasks[t].fileBuffer))
            => tasks[t].out = ReferenceSplice(tasks[t].fileBuffer, tasks[t].plan, 1, 0)

\* The import/export source literals of a parsed file.
SourceTypes == {"ImportDeclaration", "ExportAllDeclaration", "ExportNamedDeclaration"}

RECURSIVE SourceLiterals(_)
SourceLiterals(body) ==
    IF body = <<>> THEN <<>>
    ELSE (IF Head(body).type \in SourceTypes THEN <<Literal(Head(body))>> ELSE <<>>)
         \o SourceLiterals(Tail(body))

\* The source literals among lits that end with the local extension.
RECURSIVE LocalOnes(_)
LocalOnes(lits) ==
    IF lits = <<>> THEN <<>>
    ELSE (IF endsWith(Head(lits).value, localImportTransform.localExt)
          THEN <<Head(lits)>> ELSE <<>>)
         \o LocalOnes(Tail(lits))

\* Content f has no import/export source literal the policy calls local.
NoLocalSource(f) == LocalOnes(SourceLiterals(parse(toString(f)).body)) = <<>>

\* C4 (empty-plan identity): when no file the instance has scanned holds a
\* local import/export source literal, the plan modifyToBuffer() applies is
\* empty and the buffer it returns is the bytes it read.
C4_EmptyPlanIdentity ==
    \A t \in Tasks :
        (/\ JustReplaced(t)
         /\ tasks[t].op = "modifyToBuffer"
         /\ \A i \in 1..Len(scanned) : NoLocalSource(scanned[i]))
            => /\ substituteLiterals = <<>>
               /\ tasks[t].plan = <<>>
               /\ tasks[t].out = tasks[t].fileBuffer

\* C4 witness: modifyToBuffer() resolved on a scanned file that has an
\* import, none of them local.
C4_Witness ==
    \E t \in Tasks :
        /\ tasks[t].op = "modifyToBuffer" /\ tasks[t].result = "ok"
        /\ scanned # <<>>
        /\ \A i \in 1..Len(scanned) : NoLocalSource(scanned[i])
        /\ SourceLiterals(parse(toString(tasks[t].fileBuffer)).body) # <<>>
        /\ tasks[t].out = tasks[t].fileBuffer

C6_FileIsRewrittenBuffer ==
    \A t \in Tasks :
        (/\ tasks[t].op = "modifyToFile"
         /\ tasks[t].pc = "close" /\ tasks[t].pending = "ok"
         /\ \A u \in Tasks \ {t} : tasks[u].op # "modifyToFile")
            => file = tasks[t].out

\* C7 (policy contract), as claimed: transform is only invoked with strings
\* isLocalFile returned true for.
C7_TransformOnlyAccepted == transformed \subseteq accepted

\* C8 (scan is one-way), as claimed: an init() call made after an init()
\* call has resolved settles at once with the already-scanned error.
C8_SecondInitRefused ==
    [][\A t \in Tasks :
          (initCompleted /\ CallInit(t))
              => /\ tasks'[t].pc = "done"
                 /\ tasks'[t].result = "AlreadyScanned"]_vars

\* C9 (scanner coverage), as claimed: after the only scan of an instance,
\* the plan is the local import/export source literals of the scanned file,
\* one entry each, and nothing else.
C9_PlanIsLocalSources ==
    (Len(scanned) = 1)
        => substituteLiterals = LocalOnes(SourceLiterals(parse(toString(scanned[1])).body))

\* C10 (only the write mutates the file): the file changes only in a step
\* of a modifyToFile() call that is at its writeFile.
C10_OnlyWriteMutates ==
    [][file' # file
          => \E t \in Tasks :
                /\ tasks[t].op = "modifyToFile"
                /\ tasks[t].pc = "write"
                /\ tasks'[t].pc = "close"]_vars

\* C10 witness: init() and modifyToBuffer() have resolved, the buffer
\* returned differs from the file, and the file is what modifyToBuffer read.
C10_Witness ==
    /\ initCompleted
    /\ ~toFileCompleted
    /\ \E t \in Tasks :
          /\ tasks[t].op = "modifyToBuffer" /\ tasks[t].result = "ok"
          /\ tasks[t].out # tasks[t].fileBuffer
          /\ file = tasks[t].fileBuffer

\* C11: the output of a '.js' to '.mjs' rewrite, scanned again under a policy
\* with localExt '.mjs' and toExt '.mjs', is rewritten to itself.
C11_RescanIsIdentity ==
    (rewriteRun.step = "done" /\ rewriteRun.pass = 2)
        => rewriteRun.out = rewriteRun.first

\* The strings a path can begin with.
Prefixes(p) == {SubSeq(p, 1, n) : n \in 0..Len(p)}

\* C15: a constructed policy with localExt L and toExt T answers isLocalFile(p)
\* with whether p is some string followed by L, and for such a p transform(p)
\* is that string followed by T.
C15_DefaultPolicy ==
    LET L == localImportTransform.localExt
        T == localImportTransform.toExt
        p == policyRun.path
    IN  /\ policyRun.step \in {"classified", "transformed"}
            => (policyRun.isLocal <=> \E pre \in Prefixes(p) : p = pre \o L)
        /\ policyRun.step = "transformed"
            => \E pre \in Prefixes(p) : p = pre \o L /\ policyRun.result = pre \o T

C15_Witness ==
    /\ policyRun.step = "transformed"
    /\ policyRun.options = MainOptions
    /\ policyRun.path = <<".", "/", ".", "j", "s", "/", "a", ".", "j", "s">>
    /\ policyRun.result = <<".", "/", ".", "j", "s", "/", "a", ".", "m", "j", "s">>

\* An extension that is not empty and begins with '.'.
Dotted(ext) == ext # <<>> /\ ext[1] = "."

\* C16: constructing a policy throws exactly when localExt or toExt is empty
\* or does not begin with '.'; when it throws no field has been assigned and
\* no file has been read, scanned or written.
C16_ConstructorChecks ==
    policyRun.step \notin {"none", "new"}
        => /\ policyRun.step = "threw"
                <=> (~Dotted(policyRun.options.localExt) \/ ~Dotted(policyRun.options.toExt))
           /\ policyRun.step = "threw"
                => /\ localImportTransform.localExt = <<>>
                   /\ localImportTransform.toExt = <<>>
                   /\ tasks = [t \in Tasks |-> NoTask]
                   /\ scanned = <<>>
                   /\ file = <<>>

C16_Witness ==
    /\ policyRun.step = "threw"
    /\ policyRun.options.localExt = <<".", "j", "s">>
    /\ policyRun.options.toExt = <<"j", "s">>

\* C12: a modifyToFile or modifyToBuffer call holds an open handle only
\* while it is in flight; once it has settled, by returning or by throwing
\* at the read, in replace() or at the write, a handle it opened is closed.
C12_HandleReleased ==
    \A t \in Tasks :
        /\ tasks[t].handle = "open" => tasks[t].pc \in {"read", "write", "close"}
        /\ (Modifying(t) /\ tasks[t].pc = "done" /\ Len(tasks[t].log) > 1)
               => /\ tasks[t].handle = "closed"
                  /\ tasks[t].log[Len(tasks[t].log)] = "close"

C12_Witness ==
    \E t \in Tasks :
        /\ tasks[t].op = "modifyToFile" /\ tasks[t].pc = "done"
        /\ tasks[t].result = "IOError"
        /\ tasks[t].log = <<"open", "read", "replace", "write", "close">>
        /\ tasks[t].handle = "closed"

\* A call has issued at most one writeFile, and replace() had returned the
\* whole buffer before it.
WritesOnceAfterReplace(task) ==
    /\ Cardinality({i \in 1..Len(task.log) : task.log[i] = "write"}) <= 1
    /\ \A i \in 1..Len(task.log) :
           task.log[i] = "write"
               => /\ i > 1 /\ task.log[i - 1] = "replace"
                  /\ task.out = BufferConcat(task.splitBuffers)

\* C13: modifyToFile issues at most one write, after replace() has returned
\* the complete buffer; a call whose open, read or replace() failed issues
\* none, and the file changes only by the write of such a buffer.
C13_NoPartialWrite ==
    [][/\ \A t \in Tasks :
             tasks'[t].op = "modifyToFile" => WritesOnceAfterReplace(tasks'[t])
       /\ file' # file
             => \E t \in Tasks :
                   /\ tasks[t].op = "modifyToFile" /\ tasks[t].pc = "write"
                   /\ SubSeq(tasks[t].log, Len(tasks[t].log) - 1, Len(tasks[t].log))
                          = <<"replace", "write">>
                   /\ file' = WriteAtPosition(file, tasks[t].pos,
                                              replace(tasks[t].fileBuffer, tasks[t].plan))]_vars

C13_Witness ==
    \E t \in Tasks :
        /\ tasks[t].op = "modifyToFile" /\ tasks[t].pc = "done"
        /\ tasks[t].result = "TransformError"
        /\ tasks[t].log = <<"open", "read", "close">>
        /\ Len(scanned) = 1 /\ file = scanned[1]

\* C14: an init() whose readFile resolved with a file that does not parse
\* rejects with the parser's error and changes neither the plan nor
\* initialized; on an instance no init() has resolved on, the instance is
\* still uninitialized and the plan still empty.
C14_ParseFailure ==
    [][\A t \in Tasks :
          (/\ tasks[t].op = "init" /\ tasks[t].pc = "readFile"
           /\ tasks'[t] # tasks[t]
           /\ tasks'[t].result # "IOError"
           /\ ~parse(toString(file)).ok)
              => /\ tasks'[t].pc = "done"
                 /\ tasks'[t].result = "ParseError"
                 /\ substituteLiterals' = substituteLiterals
                 /\ initialized' = initialized
                 /\ ~initCompleted => (~initialized' /\ substituteLiterals' = <<>>)]_vars

C14_Witness ==
    \E t \in Tasks :
        /\ tasks[t].op = "init" /\ tasks[t].pc = "done"
        /\ tasks[t].result = "ParseError"
        /\ tasks[t].fileBuffer = s_import
        /\ ~initialized
        /\ substituteLiterals = <<>>

\* Call t is a modifyToFile() whose writeFile has resolved.
Wrote(t) == tasks[t].op = "modifyToFile" /\ tasks[t].pending = "ok"

\* C17: of two modifyToFile() calls, the second made while the first is
\* suspended at open, read or write, at most one writes a rewritten buffer
\* to the file.
C17_AtMostOneWrites ==
    \A t \in Tasks : \A u \in Tasks :
        (Wrote(t) /\ Wrote(u) /\ tasks[t].plan # <<>> /\ tasks[u].plan # <<>>) => t = u

\* C18: on an initialized instance the plan is strictly increasing by start
\* and no two entries overlap or repeat.
C18_PlanOrdered ==
    initialized
        => \A i \in 1..(Len(substituteLiterals) - 1) :
              /\ substituteLiterals[i].start < substituteLiterals[i + 1].start
              /\ substituteLiterals[i].end <= substituteLiterals[i + 1].start

\* C19: after one scan, the bytes [start, end) of the scanned file are, for
\* every plan entry, the source text the parser gave those offsets to: the
\* literal with its quotes.
C19_OffsetsAreByteOffsets ==
    Len(scanned) = 1
        => \A i \in 1..Len(substituteLiterals) :
              SpanText(scanned[1], substituteLiterals[i])
                  = SubSeq(toString(scanned[1]), substituteLiterals[i].start + 1,
                           substituteLiterals[i].end)

\* The text is one string literal, quotes included, of the given value.
HoldsLiteral(text, value) ==
    LET lit == LiteralAt(text, 1, "Literal")
    IN  lit.ok /\ lit.end = Len(text) /\ lit.value = value

\* C20: each time replace() runs, every planned span of the buffer it was
\* given holds the literal the scan recorded for it.
C20_PlanFitsBuffer ==
    \A t \in Tasks :
        JustReplaced(t)
            => \A i \in 1..Len(tasks[t].plan) :
                  HoldsLiteral(SpanText(tasks[t].fileBuffer, tasks[t].plan[i]),
                               tasks[t].plan[i].value)

====
